---- MODULE Spec2Model ----
(***************************************************************************)
(* Cadastro de IPs e MACs (src/app.py): a device register kept in one      *)
(* SQLite table, devices(id, ip_address UNIQUE, mac_address, name), with    *)
(* a form that adds a device, a CSV import, a filtered listing and a        *)
(* two-click removal (Remover, then Sim / Nao).                             *)
(*                                                                         *)
(* A Python str is a sequence of one-character strings, so that split,      *)
(* strip, lower, the substring test and the address parsers are computed    *)
(* character by character as the code computes them.                        *)
(***************************************************************************)
EXTENDS Integers, Sequences, FiniteSets

(***************************************************************************)
(* String literals used as inputs.                                          *)
(***************************************************************************)
IP_10_0_0_5 == <<"1", "0", ".", "0", ".", "0", ".", "5">>
IP_LOOPBACK6 == <<":", ":", "1">>
IP_OCTET_256 == <<"1", "9", "2", ".", "1", "6", "8", ".", "0", ".", "2", "5", "6">>
IP_PADDED == <<" ", "1", "0", ".", "0", ".", "0", ".", "5", " ">>
MAC_AA == <<"A", "A", ":", "B", "B", ":", "C", "C", ":", "D", "D", ":", "E", "E", ":", "F", "F">>
MAC_GG == <<"G", "G", ":", "1", "A", ":", "2", "B", ":", "3", "C", ":", "4", "D", ":", "5", "E">>
MAC_00 == <<"0", "0", ":", "1", "A", ":", "2", "B", ":", "3", "C", ":", "4", "D", ":", "5", "E">>
MAC_FIVE_GROUPS == <<"0", "0", ":", "1", "A", ":", "2", "B", ":", "3", "C", ":", "4", "D">>
NAME_PRINTER == <<"P", "r", "i", "n", "t", "e", "r">>
NAME_COPY == <<"C", "o", "p", "y">>
NAME_ROUTER == <<"R", "o", "u", "t", "e", "r">>
NAME_BLANKS == <<" ", " ">>
EMPTY == <<>>
STR_NAN == <<"n", "a", "n">>
COL_IP == <<"i", "p">>
COL_MAC == <<"m", "a", "c">>
COL_NOME == <<"n", "o", "m", "e">>
HDR_IP_PADDED == <<" ", " ", "I", "p", " ">>
HDR_MAC_UPPER == <<"M", "A", "C">>
HDR_NOME_ACCENT == <<"N", "ó", "m", "e">>
HDR_ENDERECO_IP == <<"E", "n", "d", "e", "r", "e", "c", "o", "_", "I", "P">>
TERM_PRINTER_LOWER == <<"p", "r", "i", "n", "t", "e", "r">>
TERM_PRINTER_UPPER == <<"P", "R", "I", "N", "T", "E", "R">>
TERM_MAC_PART == <<"b", "b", ":", "c">>
TERM_IP_PART == <<"0", ".", "5">>

(***************************************************************************)
(* Python str primitives.                                                   *)
(***************************************************************************)
DIGITS == {"0", "1", "2", "3", "4", "5", "6", "7", "8", "9"}
HEX_DIGITS == DIGITS \cup {"a", "b", "c", "d", "e", "f", "A", "B", "C", "D", "E", "F"}
WHITESPACE == {" ", "\t", "\n", "\r"}
COMBINING == {"U+0301", "U+0327"}

\* the lower-case letter of each ASCII capital
ASCII_LOWER ==
    [A |-> "a", B |-> "b", C |-> "c", D |-> "d", E |-> "e", F |-> "f", G |-> "g",
     H |-> "h", I |-> "i", J |-> "j", K |-> "k", L |-> "l", M |-> "m", N |-> "n",
     O |-> "o", P |-> "p", Q |-> "q", R |-> "r", S |-> "s", T |-> "t", U |-> "u",
     V |-> "v", W |-> "w", X |-> "x", Y |-> "y", Z |-> "z"]

\* str.lower(), one character
lower_char(c) ==
    IF c \in DOMAIN ASCII_LOWER THEN ASCII_LOWER[c]
    ELSE IF c = "Ó" THEN "ó"
    ELSE IF c = "Ç" THEN "ç"
    ELSE c

\* str.lower()
lower(s) == [i \in 1..Len(s) |-> lower_char(s[i])]

\* needle in hay (Python's substring test)
str_in(needle, hay) ==
    \E i \in 1..(Len(hay) + 1) :
        /\ i + Len(needle) - 1 <= Len(hay)
        /\ SubSeq(hay, i, i + Len(needle) - 1) = needle

\* str.split(sep) for a one-character separator
RECURSIVE split(_, _)
split(s, sep) ==
    IF \A i \in 1..Len(s) : s[i] # sep
    THEN <<s>>
    ELSE LET i == CHOOSE k \in 1..Len(s) : s[k] = sep /\ \A j \in 1..(k - 1) : s[j] # sep
         IN  <<SubSeq(s, 1, i - 1)>> \o split(SubSeq(s, i + 1, Len(s)), sep)

\* str.strip()
strip(s) ==
    LET keep == {i \in 1..Len(s) : s[i] \notin WHITESPACE}
    IN  IF keep = {} THEN <<>>
        ELSE LET lo == CHOOSE i \in keep : \A j \in keep : i <= j
                 hi == CHOOSE i \in keep : \A j \in keep : j <= i
             IN  SubSeq(s, lo, hi)

\* int(s, 10) of a string of ASCII digits
RECURSIVE int10(_)
int10(s) ==
    IF s = <<>> THEN 0
    ELSE 10 * int10(SubSeq(s, 1, Len(s) - 1))
         + (CHOOSE d \in 0..9 : <<"0", "1", "2", "3", "4", "5", "6", "7", "8", "9">>[d + 1] = s[Len(s)])

(***************************************************************************)
(* is_valid_ip: ipaddress.ip_address(ip) raises ValueError or not.          *)
(***************************************************************************)
\* IPv4Address._parse_octet succeeds
parse_octet_ok(octet) ==
    /\ octet # <<>>
    /\ \A i \in 1..Len(octet) : octet[i] \in DIGITS
    /\ Len(octet) <= 3
    /\ (octet = <<"0">> \/ octet[1] # "0")
    /\ int10(octet) <= 255

\* IPv4Address(s) succeeds
ipv4_ok(s) ==
    /\ \A i \in 1..Len(s) : s[i] # "/"
    /\ s # <<>>
    /\ LET octets == split(s, ".")
       IN  /\ Len(octets) = 4
           /\ \A i \in 1..4 : parse_octet_ok(octets[i])

\* IPv6Address._parse_hextet succeeds
parse_hextet_ok(hextet) ==
    /\ \A i \in 1..Len(hextet) : hextet[i] \in HEX_DIGITS
    /\ Len(hextet) <= 4
    /\ hextet # <<>>

\* IPv6Address._ip_int_from_string succeeds on the address without its scope id
ipv6_parts_ok(s) ==
    LET raw == split(s, ":")
        last == raw[Len(raw)]
        has_v4 == \E i \in 1..Len(last) : last[i] = "."
        \* an embedded IPv4 suffix is replaced by its two hextets
        parts == IF has_v4
                 THEN SubSeq(raw, 1, Len(raw) - 1) \o <<<<"0">>, <<"0">>>>
                 ELSE raw
        n == Len(parts)
        skips == {i \in 2..(n - 1) : parts[i] = <<>>}
    IN  /\ s # <<>>
        /\ Len(raw) >= 3
        /\ has_v4 => ipv4_ok(last)
        /\ n <= 9
        /\ Cardinality(skips) <= 1
        /\ IF skips # {}
           THEN LET skip_index == (CHOOSE i \in skips : TRUE) - 1
                    hi0 == skip_index
                    lo0 == n - skip_index - 1
                    parts_hi == IF parts[1] = <<>> THEN hi0 - 1 ELSE hi0
                    parts_lo == IF parts[n] = <<>> THEN lo0 - 1 ELSE lo0
                IN  /\ parts[1] = <<>> => parts_hi = 0
                    /\ parts[n] = <<>> => parts_lo = 0
                    /\ 8 - (parts_hi + parts_lo) >= 1
                    /\ \A i \in 1..parts_hi : parse_hextet_ok(parts[i])
                    /\ \A i \in (n - parts_lo + 1)..n : parse_hextet_ok(parts[i])
           ELSE /\ n = 8
                /\ \A i \in 1..n : parse_hextet_ok(parts[i])

\* IPv6Address(s) succeeds: '/' is refused, a '%scope' suffix is split off
ipv6_ok(s) ==
    /\ \A i \in 1..Len(s) : s[i] # "/"
    /\ LET pct == {i \in 1..Len(s) : s[i] = "%"}
       IN  IF pct = {} THEN ipv6_parts_ok(s)
           ELSE LET p == CHOOSE i \in pct : \A j \in pct : i <= j
                IN  /\ p < Len(s)
                    /\ Cardinality(pct) = 1
                    /\ ipv6_parts_ok(SubSeq(s, 1, p - 1))

is_valid_ip(ip) == ipv4_ok(ip) \/ ipv6_ok(ip)

(***************************************************************************)
(* is_valid_mac                                                             *)
(***************************************************************************)
is_valid_mac_hex(mac) ==
    LET groups == split(mac, ":")
    IN  /\ Len(groups) = 6
        /\ \A i \in 1..Len(groups) :
               Len(groups[i]) = 2 /\ \A k \in 1..2 : groups[i][k] \in HEX_DIGITS
is_valid_mac(mac) ==
    LET groups == split(mac, ":")
    IN  /\ Len(groups) = 6
        /\ \A i \in 1..Len(groups) : Len(groups[i]) = 2

(***************************************************************************)
(* normalize_col_name                                                       *)
(***************************************************************************)
\* unicodedata.normalize('NFKD', c) for one character
nfkd_char(c) ==
    CASE c = "ó" -> <<"o", "U+0301">>
      [] c = "Ó" -> <<"O", "U+0301">>
      [] c = "ç" -> <<"c", "U+0327">>
      [] c = "Ç" -> <<"C", "U+0327">>
      [] OTHER -> <<c>>

RECURSIVE nfkd(_)
nfkd(s) == IF s = <<>> THEN <<>> ELSE nfkd_char(Head(s)) \o nfkd(Tail(s))

normalize_col_name_keep_marks(col_name) == lower(strip(nfkd(col_name)))
normalize_col_name(col_name) ==
    lower(strip(SelectSeq(nfkd(col_name), LAMBDA c : c \notin COMBINING)))

(***************************************************************************)
(* Messages shown with st.success / st.warning.                             *)
(***************************************************************************)
MSG_NONE == ""
MSG_INVALID == "Dados inválidos. Verifique IP, MAC e nome."
MSG_ADDED == "Dispositivo adicionado com sucesso!"
MSG_DUPLICATE == "Este IP já está cadastrado."
MSG_IMPORTED == "Importação concluída: {inseridos} dispositivo(s) inserido(s)."
MSG_MISSING_COLUMNS == "Colunas obrigatórias não encontradas: ip, mac, nome."
MSG_FILE_COLUMNS == "A planilha deve conter as colunas: ip, mac, nome."
MSG_PREVIEW == "Pré-visualização da planilha:"
MSG_CONFIRM == "Tem certeza que deseja remover este dispositivo?"
MSG_REMOVED == "Removido!"
MSG_LOCKED == "sqlite3.OperationalError: database is locked"

(***************************************************************************)
(* The devices table.  The id column is never read by the application       *)
(* (every SELECT names name, ip_address, mac_address; DELETE is by          *)
(* ip_address); AUTOINCREMENT gives each new row the largest rowid, so the  *)
(* table is the sequence of its rows in insertion order.                    *)
(***************************************************************************)
Row(ip, mac, name) == [ip_address |-> ip, mac_address |-> mac, name |-> name]

\* the UNIQUE constraint on ip_address refuses the INSERT (sqlite3.IntegrityError)
IntegrityError_never(table, ip) == FALSE
IntegrityError(table, ip) == \E i \in 1..Len(table) : table[i].ip_address = ip

\* INSERT INTO devices (ip_address, mac_address, name) VALUES (?, ?, ?)
insert_row(table, ip, mac, name) == Append(table, Row(ip, mac, name))

\* DELETE FROM devices WHERE ip_address = ?
delete_by_ip_first_row(table, ip) == IF table = <<>> THEN table ELSE Tail(table)
delete_by_ip(table, ip) == SelectSeq(table, LAMBDA r : r.ip_address # ip)

\* the guard of add_device and of the import loop; a str is truthy iff non-empty
fields_valid_any_mac(ip, mac, name) == is_valid_ip(ip) /\ name # <<>>
fields_valid(ip, mac, name) == is_valid_ip(ip) /\ is_valid_mac(mac) /\ name # <<>>

(***************************************************************************)
(* The data frame pd.read_csv hands to the import: column labels and rows   *)
(* of cells.  A cell is a str or the missing value NaN (an empty CSV        *)
(* field).                                                                  *)
(***************************************************************************)
Str(s) == [nan |-> FALSE, s |-> s]
NaN == [nan |-> TRUE, s |-> <<>>]

\* str(cell)
str(cell) == IF cell.nan THEN STR_NAN ELSE cell.s

REQUIRED == <<COL_IP, COL_MAC, COL_NOME>>

\* df.columns = [normalize_col_name(col) for col in df.columns]
RECURSIVE normalize_columns(_)
normalize_columns(columns) ==
    IF columns = <<>> THEN <<>>
    ELSE <<normalize_col_name(Head(columns))>> \o normalize_columns(Tail(columns))

\* all(col in df.columns for col in ['ip', 'mac', 'nome'])
has_required(columns) ==
    \A i \in 1..Len(REQUIRED) : \E j \in 1..Len(columns) : columns[j] = REQUIRED[i]

\* row[col]
row_get(columns, row, col) == row[CHOOSE j \in 1..Len(columns) : columns[j] = col]

\* the for loop of importar_dados_df on one connection: the rows it has
\* inserted are seen by the UNIQUE check of the rows after them
RECURSIVE import_rows(_, _, _, _)
import_rows_abort(columns, rows, table, inseridos) ==
    IF rows = <<>> THEN [table |-> table, inseridos |-> inseridos]
    ELSE LET row == Head(rows)
             ip == strip(str(row_get(columns, row, COL_IP)))
             mac == strip(str(row_get(columns, row, COL_MAC)))
             nome == strip(str(row_get(columns, row, COL_NOME)))
         IN  IF fields_valid(ip, mac, nome)
             THEN IF IntegrityError(table, ip)
                  THEN [table |-> table, inseridos |-> inseridos]
                  ELSE import_rows(columns, Tail(rows),
                                   insert_row(table, ip, mac, nome), inseridos + 1)
             ELSE import_rows(columns, Tail(rows), table, inseridos)
import_rows(columns, rows, table, inseridos) ==
    IF rows = <<>> THEN [table |-> table, inseridos |-> inseridos]
    ELSE LET row == Head(rows)
             ip == strip(str(row_get(columns, row, COL_IP)))
             mac == strip(str(row_get(columns, row, COL_MAC)))
             nome == strip(str(row_get(columns, row, COL_NOME)))
         IN  IF fields_valid(ip, mac, nome)
             THEN IF IntegrityError(table, ip)
                  THEN import_rows(columns, Tail(rows), table, inseridos)
                  ELSE import_rows(columns, Tail(rows),
                                   insert_row(table, ip, mac, nome), inseridos + 1)
             ELSE import_rows(columns, Tail(rows), table, inseridos)

(***************************************************************************)
(* The listing of "Dispositivos Cadastrados".                               *)
(***************************************************************************)
\* SELECT name, ip_address, mac_address FROM devices
view_devices(table) ==
    [i \in 1..Len(table) |-> <<table[i].name, table[i].ip_address, table[i].mac_address>>]

\* the search filter; an empty term is falsy and filters nothing
filter_devices_case_sensitive(listing, search_term) ==
    IF search_term = <<>> THEN listing
    ELSE SelectSeq(listing, LAMBDA d : \/ str_in(search_term, lower(d[1]))
                                       \/ str_in(search_term, lower(d[2]))
                                       \/ str_in(search_term, lower(d[3])))
filter_devices(listing, search_term) ==
    IF search_term = <<>> THEN listing
    ELSE LET search_lower == lower(search_term)
         IN  SelectSeq(listing, LAMBDA d : \/ str_in(search_lower, lower(d[1]))
                                           \/ str_in(search_lower, lower(d[2]))
                                           \/ str_in(search_lower, lower(d[3])))

(***************************************************************************)
(* Inputs.                                                                  *)
(***************************************************************************)
\* the largest number of data rows of an imported sheet
MaxRows == 2

Sessions == {"s1", "s2"}

\* what is typed into the form: <<ip, mac, name>>
Forms ==
    {<<IP_10_0_0_5, MAC_AA, NAME_PRINTER>>,
     <<IP_10_0_0_5, MAC_GG, NAME_PRINTER>>,
     <<IP_LOOPBACK6, MAC_AA, NAME_PRINTER>>,
     <<IP_OCTET_256, MAC_AA, NAME_PRINTER>>,
     <<IP_10_0_0_5, MAC_FIVE_GROUPS, NAME_PRINTER>>,
     <<IP_10_0_0_5, MAC_AA, EMPTY>>}

SearchTerms == {EMPTY, TERM_PRINTER_LOWER, TERM_PRINTER_UPPER, TERM_MAC_PART, TERM_IP_PART}

\* sheet rows, written ip, mac, nome
ROW_PADDED == <<Str(IP_PADDED), Str(MAC_AA), Str(NAME_PRINTER)>>
ROW_BAD_MAC == <<Str(IP_LOOPBACK6), Str(MAC_FIVE_GROUPS), Str(NAME_ROUTER)>>
ROW_SAME_IP == <<Str(IP_10_0_0_5), Str(MAC_GG), Str(NAME_COPY)>>
ROW_ROUTER == <<Str(IP_LOOPBACK6), Str(MAC_AA), Str(NAME_ROUTER)>>
ROW_NO_NAME == <<Str(IP_LOOPBACK6), Str(MAC_AA), NaN>>
ROW_BLANK_NAME == <<Str(IP_LOOPBACK6), Str(MAC_AA), Str(NAME_BLANKS)>>
SheetRows == {ROW_PADDED, ROW_BAD_MAC, ROW_ROUTER, ROW_NO_NAME}

\* header rows; order[j] is the field (1 ip, 2 mac, 3 nome) held by column j
HEADER_PLAIN == [columns |-> <<COL_IP, COL_MAC, COL_NOME>>, order |-> <<1, 2, 3>>]
HEADER_VARIANT == [columns |-> <<HDR_NOME_ACCENT, HDR_IP_PADDED, HDR_MAC_UPPER>>, order |-> <<3, 1, 2>>]
HEADER_ENDERECO == [columns |-> <<HDR_ENDERECO_IP, COL_MAC, COL_NOME>>, order |-> <<1, 2, 3>>]
Headers == {HEADER_VARIANT, HEADER_ENDERECO}

Frame(header, sheet) ==
    [columns |-> header.columns,
     rows |-> [i \in 1..Len(sheet) |-> [j \in 1..3 |-> sheet[i][header.order[j]]]]]

Sheets == UNION {[1..n -> SheetRows] : n \in 0..MaxRows}
DataFrames == {Frame(h, sheet) : h \in Headers, sheet \in Sheets}

\* the sheets imported beside the other operations
LinkFrames ==
    {Frame(HEADER_PLAIN, <<ROW_PADDED, ROW_BAD_MAC, ROW_SAME_IP>>),
     Frame(HEADER_VARIANT, <<ROW_BLANK_NAME, ROW_NO_NAME, ROW_SAME_IP>>),
     Frame(HEADER_ENDERECO, <<ROW_PADDED>>)}

(***************************************************************************)
(* MAC strings tried against is_valid_mac.                                  *)
(***************************************************************************)
\* MAC strings of 1..MaxGroups groups joined by ':'
MaxGroups == 6
GroupSamples == {<<>>, <<"G">>, <<"1", "A">>, <<"0", "0", "1">>}

RECURSIVE join(_)
join(groups) ==
    IF Len(groups) = 1 THEN groups[1]
    ELSE groups[1] \o <<":">> \o join(Tail(groups))

MacSamples ==
    {MAC_00, MAC_GG, MAC_FIVE_GROUPS, <<" ">> \o MAC_00 \o <<" ">>}
    \cup {join(g) : g \in UNION {[1..n -> GroupSamples] : n \in 1..MaxGroups}}

(***************************************************************************)
(* State.                                                                   *)
(***************************************************************************)
VARIABLES
    devices,        \* the rows of the devices table, committed
    session_state,  \* per browser session: <<ip>> when 'ip_to_remove' is set, else <<>>
    uploaded,       \* <<df>> while the file uploader holds a parsed sheet, else <<>>
    msg,            \* the message of the latest run
    inseridos,      \* <<n>> when the latest run reported n inserted rows, else <<>>
    req,            \* the handler that ran latest, with its inputs
    pc,             \* per session: where its add_device call stands
    args,           \* per session: the <<ip, mac, name>> of its add_device call
    txn,            \* per session: the rows its connection inserted and has not committed
    lock,           \* the session whose connection holds SQLite's write lock, or ""
    out,            \* per session: the message of its add_device call
    base,           \* the table when the sessions' calls began
    probe           \* one MAC string and what is_valid_mac made of it

uivars == <<session_state, uploaded, msg, inseridos, req>>
concvars == <<pc, args, txn, lock, out, base>>
vars == <<devices, session_state, uploaded, msg, inseridos, req,
          pc, args, txn, lock, out, base, probe>>

InitStore ==
    /\ devices = <<>>
    /\ session_state = [s \in Sessions |-> <<>>]
    /\ uploaded = <<>>
    /\ msg = MSG_NONE
    /\ inseridos = <<>>
    /\ req = [op |-> "init"]

InitConc ==
    /\ pc = [s \in Sessions |-> "idle"]
    /\ args = [s \in Sessions |-> <<>>]
    /\ txn = [s \in Sessions |-> <<>>]
    /\ lock = ""
    /\ out = [s \in Sessions |-> MSG_NONE]
    /\ base = <<>>

NoProbe == [raw |-> <<>>, path |-> "none", arg |-> <<>>, res |-> FALSE]

Init == InitStore /\ InitConc /\ probe = NoProbe

(***************************************************************************)
(* "Cadastrar Dispositivo": the button calls add_device(ip, mac, name).     *)
(***************************************************************************)
add_device(ip, mac, name) ==
    IF ~fields_valid(ip, mac, name)
    THEN /\ msg' = MSG_INVALID
         /\ devices' = devices
    ELSE IF IntegrityError(devices, ip)
         THEN /\ msg' = MSG_DUPLICATE
              /\ devices' = devices
         ELSE /\ msg' = MSG_ADDED
              /\ devices' = insert_row(devices, ip, mac, name)

Cadastrar(ip, mac, name) ==
    /\ add_device(ip, mac, name)
    /\ req' = [op |-> "add_device", ip |-> ip, mac |-> mac, name |-> name]
    /\ inseridos' = <<>>
    /\ uploaded' = <<>>
    /\ UNCHANGED <<session_state, concvars, probe>>

(***************************************************************************)
(* "Importar Planilha".                                                     *)
(***************************************************************************)
importar_dados_df(df) ==
    \E columns \in {normalize_columns(df.columns)} :
        IF has_required(columns)
        THEN \E done \in {import_rows(columns, df.rows, devices, 0)} :
                 /\ devices' = done.table
                 /\ inseridos' = <<done.inseridos>>
                 /\ msg' = MSG_IMPORTED
        ELSE /\ devices' = devices
             /\ inseridos' = <<>>
             /\ msg' = MSG_MISSING_COLUMNS

\* "Importar via link": importar_dados_csv reads the sheet and imports it
ImportarViaLink(df) ==
    /\ importar_dados_df(df)
    /\ req' = [op |-> "importar_dados_df", df |-> df]
    /\ uploaded' = <<>>
    /\ UNCHANGED <<session_state, concvars, probe>>

\* a file is chosen: its columns are normalized, the preview is shown, and
\* the "Importar" button is offered only when the required columns are there
UploadFile(df) ==
    LET shown == [df EXCEPT !.columns = normalize_columns(df.columns)]
    IN  /\ uploaded' = <<shown>>
        /\ msg' = IF has_required(shown.columns) THEN MSG_PREVIEW ELSE MSG_FILE_COLUMNS
        /\ req' = [op |-> "upload", df |-> df]
        /\ inseridos' = <<>>
        /\ UNCHANGED <<devices, session_state, concvars, probe>>

ClickImportar ==
    /\ uploaded # <<>>
    /\ has_required(uploaded[1].columns)
    /\ importar_dados_df(uploaded[1])
    /\ req' = [op |-> "importar_dados_df", df |-> uploaded[1]]
    /\ UNCHANGED <<uploaded, session_state, concvars, probe>>

(***************************************************************************)
(* "Dispositivos Cadastrados": Remover, then Sim or Nao.  The buttons are   *)
(* drawn inside "if devices:", on the listing as filtered by the search     *)
(* term of the run.                                                         *)
(***************************************************************************)
\* the rows drawn in a run whose search box holds search_term
drawn(search_term) == filter_devices(view_devices(devices), search_term)

\* "Remover" on the row d = <<name, ip, mac>> of the listing
ClickRemover_deletes(s, d) ==
    /\ session_state' = [session_state EXCEPT ![s] = <<d[2]>>]
    /\ msg' = MSG_CONFIRM
    /\ req' = [op |-> "Remover", session |-> s, ip |-> d[2]]
    /\ inseridos' = <<>>
    /\ uploaded' = <<>>
    /\ devices' = delete_by_ip(devices, d[2])
    /\ UNCHANGED <<concvars, probe>>
ClickRemover(s, d) ==
    /\ session_state' = [session_state EXCEPT ![s] = <<d[2]>>]
    /\ msg' = MSG_CONFIRM
    /\ req' = [op |-> "Remover", session |-> s, ip |-> d[2]]
    /\ inseridos' = <<>>
    /\ uploaded' = <<>>
    /\ UNCHANGED <<devices, concvars, probe>>

ClickSim(s, search_term) ==
    /\ session_state[s] # <<>>
    /\ drawn(search_term) # <<>>
    /\ devices' = delete_by_ip(devices, session_state[s][1])
    /\ msg' = MSG_REMOVED
    /\ session_state' = [session_state EXCEPT ![s] = <<>>]
    /\ req' = [op |-> "Sim", session |-> s, ip |-> session_state[s][1],
               rowcount |-> Len(devices) - Len(delete_by_ip(devices, session_state[s][1]))]
    /\ inseridos' = <<>>
    /\ uploaded' = <<>>
    /\ UNCHANGED <<concvars, probe>>

ClickNao(s, search_term) ==
    /\ session_state[s] # <<>>
    /\ drawn(search_term) # <<>>
    /\ session_state' = [session_state EXCEPT ![s] = <<>>]
    /\ msg' = MSG_NONE
    /\ req' = [op |-> "Nao", session |-> s, ip |-> session_state[s][1]]
    /\ inseridos' = <<>>
    /\ uploaded' = <<>>
    /\ UNCHANGED <<devices, concvars, probe>>

Next ==
    \/ \E f \in Forms : Cadastrar(f[1], f[2], f[3])
    \/ \E df \in LinkFrames : ImportarViaLink(df)
    \/ \E df \in LinkFrames : UploadFile(df)
    \/ ClickImportar
    \/ \E t \in SearchTerms :
           \E d \in {drawn(t)[i] : i \in 1..Len(drawn(t))}, s \in Sessions : ClickRemover(s, d)
    \/ \E s \in Sessions, t \in SearchTerms : ClickSim(s, t)
    \/ \E s \in Sessions, t \in SearchTerms : ClickNao(s, t)

Spec == Init /\ [][Next]_vars

\* the import by link alone, over every sheet of at most MaxRows rows
NextImport == \E df \in DataFrames : ImportarViaLink(df)

SpecImport == Init /\ [][NextImport]_vars

(***************************************************************************)
(* Two sessions in add_device at once.  Streamlit runs each session's       *)
(* script in its own thread, and get_db opens one connection per call.      *)
(* sqlite3 opens a transaction before the INSERT; the INSERT takes the      *)
(* database's write lock, which the connection keeps until it commits.      *)
(* While another connection holds the lock the INSERT waits, and after the  *)
(* connection's timeout (5 s by default) raises OperationalError, which     *)
(* add_device does not catch: it leaves get_db at the yield, so neither     *)
(* commit nor close runs.                                                   *)
(***************************************************************************)
other(s) == CHOOSE t \in Sessions : t # s

\* the button is pressed: add_device validates, then get_db connects
Begin(s, f) ==
    /\ pc[s] = "idle"
    /\ args' = [args EXCEPT ![s] = f]
    /\ IF ~fields_valid(f[1], f[2], f[3])
       THEN /\ out' = [out EXCEPT ![s] = MSG_INVALID]
            /\ pc' = [pc EXCEPT ![s] = "done"]
       ELSE /\ out' = [out EXCEPT ![s] = MSG_NONE]
            /\ pc' = [pc EXCEPT ![s] = "connected"]
    /\ base' = IF \A t \in Sessions : pc[t] = "idle" THEN devices ELSE base
    /\ UNCHANGED <<devices, txn, lock, uivars, probe>>

\* conn.execute(INSERT): the write lock is free or already this connection's
Execute(s) ==
    /\ pc[s] = "connected"
    /\ lock \in {"", s}
    /\ lock' = s
    /\ IF IntegrityError(devices \o txn[s], args[s][1])
       THEN /\ out' = [out EXCEPT ![s] = MSG_DUPLICATE]
            /\ txn' = txn
       ELSE /\ out' = [out EXCEPT ![s] = MSG_ADDED]
            /\ txn' = [txn EXCEPT ![s] = insert_row(txn[s], args[s][1], args[s][2], args[s][3])]
    /\ pc' = [pc EXCEPT ![s] = "commit"]
    /\ UNCHANGED <<devices, args, base, uivars, probe>>

\* conn.execute(INSERT) while the other connection holds the write lock, and
\* keeps it for longer than the timeout: OperationalError leaves add_device
ExecuteLocked(s) ==
    /\ pc[s] = "connected"
    /\ lock \notin {"", s}
    /\ out' = [out EXCEPT ![s] = MSG_LOCKED]
    /\ pc' = [pc EXCEPT ![s] = "done"]
    /\ UNCHANGED <<devices, args, txn, lock, base, uivars, probe>>

\* get_db after the yield: conn.commit()
Commit(s) ==
    /\ pc[s] = "commit"
    /\ devices' = devices \o txn[s]
    /\ txn' = [txn EXCEPT ![s] = <<>>]
    /\ lock' = IF lock = s THEN "" ELSE lock
    /\ pc' = [pc EXCEPT ![s] = "close"]
    /\ UNCHANGED <<args, out, base, uivars, probe>>

\* get_db: conn.close()
Close(s) ==
    /\ pc[s] = "close"
    /\ pc' = [pc EXCEPT ![s] = "done"]
    /\ UNCHANGED <<devices, args, txn, lock, out, base, uivars, probe>>

\* both runs are over; the form is there again
NextRun ==
    /\ \A s \in Sessions : pc[s] = "done"
    /\ pc' = [s \in Sessions |-> "idle"]
    /\ out' = [s \in Sessions |-> MSG_NONE]
    /\ UNCHANGED <<devices, args, txn, lock, base, uivars, probe>>

NextConc ==
    \/ \E s \in Sessions, f \in Forms : Begin(s, f)
    \/ \E s \in Sessions : Execute(s)
    \/ \E s \in Sessions : ExecuteLocked(s)
    \/ \E s \in Sessions : Commit(s)
    \/ \E s \in Sessions : Close(s)
    \/ NextRun

SpecConc == Init /\ [][NextConc]_vars

(***************************************************************************)
(* is_valid_mac on its own: one MAC string goes through the check of        *)
(* add_device (as typed) or of the import loop (str(cell).strip()).         *)
(***************************************************************************)
InitMac ==
    /\ InitStore /\ InitConc
    /\ probe \in {[NoProbe EXCEPT !.raw = m] : m \in MacSamples}

ValidateOnAdd ==
    /\ probe.path = "none"
    /\ probe' = [probe EXCEPT !.path = "add_device", !.arg = probe.raw,
                              !.res = is_valid_mac(probe.raw)]
    /\ UNCHANGED <<devices, uivars, concvars>>

ValidateOnImport ==
    /\ probe.path = "none"
    /\ LET mac == strip(str(Str(probe.raw)))
       IN  probe' = [probe EXCEPT !.path = "importar_dados_df", !.arg = mac,
                                  !.res = is_valid_mac(mac)]
    /\ UNCHANGED <<devices, uivars, concvars>>

NextMac == ValidateOnAdd \/ ValidateOnImport

SpecMac == InitMac /\ [][NextMac]_vars
(***************************************************************************)
(* Properties.                                                              *)
(***************************************************************************)
AllIps == {IP_10_0_0_5, IP_LOOPBACK6, IP_OCTET_256}
StoredIps(table) == {table[i].ip_address : i \in 1..Len(table)}
RowsWithIp(table, ip) == {i \in 1..Len(table) : table[i].ip_address = ip}
RequestValid(r) == is_valid_ip(r.ip) /\ is_valid_mac(r.mac) /\ r.name # <<>>

\* C1: no two rows of the table ever have the same ip_address, and an
\* add_device call with valid inputs whose ip is already stored shows the
\* duplicate-IP warning and leaves the table as it was, one row for that ip.
C1_UniqueIpAddress ==
    /\ [](\A ip \in StoredIps(devices) : Cardinality(RowsWithIp(devices, ip)) = 1)
    /\ [][(req'.op = "add_device" /\ RequestValid(req') /\ req'.ip \in StoredIps(devices))
            => /\ msg' = MSG_DUPLICATE
               /\ devices' = devices
               /\ Cardinality(RowsWithIp(devices', req'.ip)) = 1]_vars

\* an add_device call was refused for its ip, which is stored with another MAC
C1_Witness ==
    /\ req.op = "add_device"
    /\ msg = MSG_DUPLICATE
    /\ \E i \in 1..Len(devices) :
           devices[i].ip_address = req.ip /\ devices[i].mac_address # req.mac

\* C5: every stored row has a valid ip_address, a valid mac_address and a
\* non-empty name, and an add_device call with an invalid ip, an invalid mac
\* or an empty name shows the validation warning and leaves the table as it was.
C5_StoredRowsValidated ==
    /\ [](\A i \in 1..Len(devices) :
             /\ is_valid_ip(devices[i].ip_address)
             /\ is_valid_mac(devices[i].mac_address)
             /\ devices[i].name # <<>>)
    /\ [][(req'.op = "add_device" /\ ~RequestValid(req'))
            => (msg' = MSG_INVALID /\ devices' = devices)]_vars

\* an add_device call with a five-group MAC was refused while the table
\* holds an added and an imported row
C5_Witness ==
    /\ req.op = "add_device"
    /\ req.mac = MAC_FIVE_GROUPS
    /\ msg = MSG_INVALID
    /\ Len(devices) = 2
    /\ \E i \in 1..Len(devices) : devices[i].name = STR_NAN

\* C6: the confirmed delete removes exactly the rows whose ip_address is the
\* pending ip and keeps the others in order; when no row has that ip it
\* succeeds and changes nothing; deleting twice equals deleting once.
C6_DeleteIdempotent ==
    /\ [](\A ip \in AllIps :
             delete_by_ip(delete_by_ip(devices, ip), ip) = delete_by_ip(devices, ip))
    /\ [][req'.op = "Sim"
            => /\ msg' = MSG_REMOVED
               /\ devices' = SelectSeq(devices, LAMBDA r : r.ip_address # req'.ip)
               /\ req'.ip \notin StoredIps(devices')
               /\ (req'.ip \notin StoredIps(devices) => devices' = devices)]_vars

\* a confirmed delete found no row with its ip and the table is not empty
C6_Witness ==
    /\ req.op = "Sim"
    /\ req.rowcount = 0
    /\ msg = MSG_REMOVED
    /\ devices # <<>>

\* case-insensitive substring, stated position by position
CiContains(hay, needle) ==
    \E off \in 0..(Len(hay) - Len(needle)) :
        \A k \in 1..Len(needle) : lower_char(hay[off + k]) = lower_char(needle[k])

\* C7: with a non-empty search term the listing is, in table order, exactly
\* the devices whose name, ip_address or mac_address contains the term
\* without regard to case; a device just added is listed under its name
\* typed in another case.
C7_ListingFilter ==
    /\ \A t \in SearchTerms \ {EMPTY} :
           drawn(t) = SelectSeq(view_devices(devices),
                                LAMBDA d : \E k \in 1..3 : CiContains(d[k], t))
    /\ (req.op = "add_device" /\ msg = MSG_ADDED)
         => \A t \in {lower(req.name), TERM_PRINTER_UPPER} :
                \E i \in 1..Len(drawn(t)) : drawn(t)[i] = <<req.name, req.ip, req.mac>>

\* a device was added and the upper-case term lists it but not every device
C7_Witness ==
    /\ req.op = "add_device"
    /\ msg = MSG_ADDED
    /\ drawn(TERM_PRINTER_UPPER) # <<>>
    /\ Len(drawn(TERM_PRINTER_UPPER)) < Len(devices)
    /\ Len(drawn(TERM_MAC_PART)) < Len(devices)

\* C10: a row leaves the table only in a Sim step of a session that holds a
\* pending removal; Remover changes only the pending removal; Sim deletes
\* exactly the rows with the pending ip and clears it; Nao clears it and
\* leaves the table as it was.
C10_RemovalNeedsConfirmation ==
    [][/\ (\E i \in 1..Len(devices) : \A j \in 1..Len(devices') : devices'[j] # devices[i])
            => /\ req'.op = "Sim"
               /\ session_state[req'.session] = <<req'.ip>>
               /\ \A i \in 1..Len(devices) :
                      (\A j \in 1..Len(devices') : devices'[j] # devices[i])
                          => devices[i].ip_address = req'.ip
       /\ req'.op = "Remover"
            => /\ devices' = devices
               /\ session_state' = [session_state EXCEPT ![req'.session] = <<req'.ip>>]
       /\ req'.op = "Sim"
            => /\ session_state[req'.session] # <<>>
               /\ devices' = SelectSeq(devices,
                      LAMBDA r : r.ip_address # session_state[req'.session][1])
               /\ session_state' = [session_state EXCEPT ![req'.session] = <<>>]
       /\ req'.op = "Nao"
            => /\ session_state[req'.session] # <<>>
               /\ devices' = devices
               /\ session_state' = [session_state EXCEPT ![req'.session] = <<>>]]_vars

\* Sim removed one of two rows while the other session still holds a
\* pending removal
C10_Witness ==
    /\ req.op = "Sim"
    /\ req.rowcount = 1
    /\ Len(devices) = 1
    /\ session_state[other(req.session)] # <<>>

(***************************************************************************)
(* Import.                                                                  *)
(***************************************************************************)
\* the three fields the loop reads from each sheet row, under the
\* normalized labels
Field(columns, row, col) == strip(str(row_get(columns, row, col)))
Cells(columns, rows) ==
    {<<i, Row(Field(columns, rows[i], COL_IP), Field(columns, rows[i], COL_MAC),
              Field(columns, rows[i], COL_NOME))>> : i \in 1..Len(rows)}

\* the rows whose fields pass the loop's validation
Passing(cells) ==
    {c \in cells : fields_valid(c[2].ip_address, c[2].mac_address, c[2].name)}

\* the rows an import into table must insert, out of the passing ones:
\* those whose ip is not stored and is the ip of no passing row above
Inserted(passing, table) ==
    {c \in passing :
        /\ c[2].ip_address \notin StoredIps(table)
        /\ \A d \in passing : d[1] < c[1] => d[2].ip_address # c[2].ip_address}

\* C2: an import whose header resolves goes through every row: rows that
\* fail validation or conflict on ip_address (with the table or with a row
\* above) are skipped, every other row is appended in sheet order, and the
\* reported count is the number of rows the table grew by.
C2_ImportSkipsAndCounts ==
    [][(req'.op = "importar_dados_df" /\ msg' = MSG_IMPORTED)
         => \A columns \in {normalize_columns(req'.df.columns)} :
            \A cells \in {Cells(columns, req'.df.rows)} :
            \A passing \in {Passing(cells)} :
            \A ins \in {Inserted(passing, devices)} :
                /\ inseridos' = <<Len(devices') - Len(devices)>>
                /\ Len(devices') = Len(devices) + Cardinality(ins)
                /\ SubSeq(devices', 1, Len(devices)) = devices
                /\ \A c \in ins :
                       devices'[Len(devices) + Cardinality({d \in ins : d[1] <= c[1]})]
                           = c[2]]_vars

\* the first row conflicted with a stored row and the row after it was inserted
C2_Witness ==
    /\ req.op = "importar_dados_df"
    /\ req.df = Frame(HEADER_VARIANT, <<ROW_ROUTER, ROW_PADDED>>)
    /\ inseridos = <<1>>
    /\ devices = <<Row(IP_LOOPBACK6, MAC_AA, NAME_ROUTER), Row(IP_10_0_0_5, MAC_AA, NAME_PRINTER)>>

\* letters without case and accent
plain(c) ==
    IF c \in {"ó", "Ó"} THEN "o" ELSE IF c \in {"ç", "Ç"} THEN "c" ELSE lower_char(c)

\* label is want up to case, accents and surrounding whitespace
SameLabel(label, want) ==
    \E lo \in 1..(Len(label) + 1) :
        /\ lo + Len(want) - 1 <= Len(label)
        /\ \A k \in 1..Len(want) : plain(label[lo + k - 1]) = want[k]
        /\ \A k \in 1..Len(label) :
               (k < lo \/ k > lo + Len(want) - 1) => label[k] \in WHITESPACE

Resolves(columns) ==
    \A r \in {COL_IP, COL_MAC, COL_NOME} : \E j \in 1..Len(columns) : SameLabel(columns[j], r)

\* C3: when one of ip, mac, nome matches no column label up to case, accents
\* and surrounding whitespace, the import shows the missing-columns warning,
\* inserts nothing and reports no count; otherwise the sheet is accepted
\* and a count is reported.
C3_MissingColumns ==
    [][req'.op = "importar_dados_df"
         => IF Resolves(req'.df.columns)
            THEN msg' = MSG_IMPORTED /\ inseridos' # <<>>
            ELSE msg' = MSG_MISSING_COLUMNS /\ devices' = devices /\ inseridos' = <<>>]_vars

\* a sheet headed Endereco_IP with a row that passes validation was refused
C3_Witness ==
    /\ req.op = "importar_dados_df"
    /\ req.df = Frame(HEADER_ENDERECO, <<ROW_PADDED>>)
    /\ msg = MSG_MISSING_COLUMNS
    /\ devices = <<>>

\* the name cell of a sheet row is missing or only whitespace
NameCellEmpty(columns, row) ==
    row_get(columns, row, COL_NOME).nan \/ strip(row_get(columns, row, COL_NOME).s) = <<>>

\* C9: an import inserts no row out of sheet rows whose name cell is empty
\* (missing or only whitespace), and does not count them.
C9_EmptyNameSkipped ==
    [][(req'.op = "importar_dados_df" /\ msg' = MSG_IMPORTED)
         => \A columns \in {normalize_columns(req'.df.columns)} :
            \A named \in {{Field(columns, req'.df.rows[i], COL_IP) :
                             i \in {j \in 1..Len(req'.df.rows) :
                                      ~NameCellEmpty(columns, req'.df.rows[j])}}} :
                /\ inseridos'[1] <= Cardinality({j \in 1..Len(req'.df.rows) :
                                                   ~NameCellEmpty(columns, req'.df.rows[j])})
                /\ \A k \in (Len(devices) + 1)..Len(devices') :
                       devices'[k].ip_address \in named]_vars

(***************************************************************************)
(* Two sessions.                                                            *)
(***************************************************************************)
\* C4: when both sessions have run add_device with valid inputs and the
\* same ip, which was not stored when they began, one of them showed the
\* success message, the other the duplicate-IP warning, and the table holds
\* exactly one row for that ip.
C4_OneSuccessOneDuplicate ==
    (/\ \A s \in Sessions : pc[s] = "done"
     /\ \A s \in Sessions : fields_valid(args[s][1], args[s][2], args[s][3])
     /\ args["s1"][1] = args["s2"][1]
     /\ args["s1"][1] \notin StoredIps(base))
        => /\ \E s \in Sessions : out[s] = MSG_ADDED /\ out[other(s)] = MSG_DUPLICATE
           /\ Cardinality(RowsWithIp(devices, args["s1"][1])) = 1

(***************************************************************************)
(* is_valid_mac.                                                            *)
(***************************************************************************)
\* seventeen characters, ':' at every third place and nowhere else
LoosePolicy(mac) ==
    /\ Len(mac) = 17
    /\ \A i \in 1..17 : (mac[i] = ":") <=> (i % 3 = 0)

\* C8: on the add_device path and on the import path alike, is_valid_mac is
\* true exactly of the strings made of six groups of two characters
\* separated by ':'; 00:1A:2B:3C:4D:5E is valid, 00:1A:2B:3C:4D is not,
\* GG:1A:2B:3C:4D:5E is valid.
C8_LooseMacPolicy ==
    probe.path # "none"
        => /\ probe.res = LoosePolicy(probe.arg)
           /\ probe.arg = MAC_00 => probe.res
           /\ probe.arg = MAC_FIVE_GROUPS => ~probe.res
           /\ probe.arg = MAC_GG => probe.res

\* the import path accepted a MAC that it had to strip first
C8_Witness ==
    /\ probe.path = "importar_dados_df"
    /\ probe.arg = MAC_00
    /\ probe.raw # probe.arg
    /\ probe.res
====
